---- MODULE Spec2Model ----
(***************************************************************************)
(* Model of the accuchek glucose-meter listeners.                          *)
(*                                                                         *)
(*   gm_listener.py   GlucoseMeterListener: subscribes, writes the two     *)
(*                    RACP commands, waits for the completion response,    *)
(*                    prints a summary, keeps the connection alive.        *)
(*   ble_listener.py  BLEListener: config-driven subscriptions, the same   *)
(*                    two RACP commands, then listens until disconnected.  *)
(*                                                                         *)
(* One behaviour is one run of one of the two scripts, from the point at   *)
(* which the BleakClient connection is established.  asyncio gives a       *)
(* single flow of control: the notification handler runs only while the    *)
(* coroutine is suspended in an await.                                     *)
(*                                                                         *)
(*   Spec        one run of either script                                  *)
(*   SpecReuse   connect_and_retrieve_data called again on one listener    *)
(*   SpecDecode  the two record decoders applied to byte buffers           *)
(*   SpecRacp    the two RACP decoders applied to byte buffers             *)
(*   SpecPure    a decoder applied twice, notifications in between         *)
(***************************************************************************)
EXTENDS Integers, Sequences, FiniteSets, TLC

\* ------------------------------------------------------------------------
\* Bounds of the model
\* ------------------------------------------------------------------------
\* number of notifications the device sends in a run
MaxNotifs == 4
\* iterations of the one-second wait loop (30 in the script)
timeout == 2
\* iterations of the keep-alive loop (10 in the script)
KeepAliveSecs == 1
\* iterations of the BLEListener connection loop (unbounded in the script)
MaxConnTime == 3
\* calls of connect_and_retrieve_data made on one listener
MaxInvocations == 2
\* decoder runs: the longest buffer and the largest flags byte
MaxBufLen == 17
MaxFlags == 31
\* RACP decoder runs: the largest opcode byte and the largest result byte
MaxOpcode == 7
MaxResultCode == 10

\* ------------------------------------------------------------------------
\* Characteristics and RACP constants
\* ------------------------------------------------------------------------
GLUCOSE_MEASUREMENT_UUID == "2a18"
GLUCOSE_CONTEXT_UUID == "2a34"
RACP_UUID == "2a52"

RACP_OPCODE_REPORT_STORED_RECORDS == 1
RACP_OPCODE_ABORT_OPERATION == 3
RACP_OPCODE_REPORT_NUM_RECORDS == 4
RACP_OPCODE_NUM_RESPONSE == 5
RACP_OPCODE_RESPONSE_CODE == 6
RACP_OPERATOR_NULL == 0
RACP_OPERATOR_ALL_RECORDS == 1

\* Python's None and a present value
None == <<>>
Some(v) == <<v>>

\* ------------------------------------------------------------------------
\* Byte helpers
\* ------------------------------------------------------------------------
\* int.from_bytes(data[i:i+2], byteorder='little'), 1-based index i
LE16(data, i) == data[i] + 256 * data[i + 1]

\* int.from_bytes(..., byteorder='little', signed=True)
SignedLE16(data, i) ==
    IF LE16(data, i) >= 32768 THEN LE16(data, i) - 65536 ELSE LE16(data, i)

\* bool(flags & mask) for a one-bit mask 2^b
Bit(flags, b) == (flags \div (2 ^ b)) % 2 = 1

\* ------------------------------------------------------------------------
\* SFLOAT: mantissa * (10 ** exponent), kept as the exact decimal
\* <<n, e>> = n * 10^e with n not a multiple of 10 (<<0, 0>> for zero), so
\* that equal numbers have equal representations
\* ------------------------------------------------------------------------
RECURSIVE Canon(_, _)
Canon(m, e) ==
    IF m = 0 THEN <<0, 0>>
    ELSE IF m % 10 = 0 THEN Canon(m \div 10, e + 1)
    ELSE <<m, e>>

\* variant: the exponent nibble is taken unsigned
SfloatExponent_unsigned(raw) == (raw \div 4096) % 16

SfloatExponent(raw) ==
    LET x == (raw \div 4096) % 16 IN IF x >= 8 THEN -(16 - x) ELSE x

SfloatMantissa(raw) ==
    LET m == raw % 4096 IN IF m >= 2048 THEN -(4096 - m) ELSE m

\* gm_listener.py: special values first, then the number
GmSfloat(raw) ==
    IF raw = 2047 THEN <<"NaN">>
    ELSE IF raw = 2048 THEN <<"NRes">>
    ELSE IF raw = 2046 THEN <<"+INFINITY">>
    ELSE IF raw = 2050 THEN <<"-INFINITY">>
    ELSE IF raw = 2049 THEN <<"Reserved">>
    ELSE <<"num", Canon(SfloatMantissa(raw), SfloatExponent(raw))>>

\* ------------------------------------------------------------------------
\* GlucoseMeterListener.decode_glucose_measurement
\* ------------------------------------------------------------------------
GmDecodeError(data) == [error |-> TRUE, raw |-> data]

decode_glucose_measurement(data) ==
    IF Len(data) < 10 THEN GmDecodeError(data)
    ELSE
    LET flags == data[1]
        time_offset_present == Bit(flags, 0)
        status_annunciation_present == Bit(flags, 3)
        hasOff == time_offset_present /\ Len(data) >= 10 + 2
        offset1 == IF hasOff THEN 12 ELSE 10
        hasConc == Len(data) >= offset1 + 3
        offset2 == IF hasConc THEN offset1 + 3 ELSE offset1
        hasStatus == status_annunciation_present /\ Len(data) >= offset2 + 2
    IN [error |-> FALSE,
        sequence_number |-> LE16(data, 2),
        timestamp |-> <<LE16(data, 4), data[6], data[7], data[8], data[9], data[10]>>,
        glucose_value |-> IF hasConc THEN Some(GmSfloat(LE16(data, offset1 + 1))) ELSE None,
        units |-> IF Bit(flags, 2) THEN "mmol/L" ELSE "mg/dL",
        sample_type |-> IF hasConc THEN Some((data[offset1 + 3] \div 16) % 16) ELSE None,
        sample_location |-> IF hasConc THEN Some(data[offset1 + 3] % 16) ELSE None,
        time_offset_minutes |-> IF hasOff THEN Some(SignedLE16(data, 11)) ELSE None,
        status |-> IF hasStatus THEN Some(LE16(data, offset2 + 1)) ELSE None,
        context_follows |-> Bit(flags, 4),
        raw_hex |-> data]

\* ------------------------------------------------------------------------
\* BLEListener.decode_glucose_measurement.  It returns text; the record
\* holds what each line of the text is formatted from, None for a line that
\* is not appended.
\* ------------------------------------------------------------------------
ble_decode_glucose_measurement(data) ==
    IF Len(data) < 10
    THEN [error |-> TRUE, text |-> "Data too short for glucose measurement"]
    ELSE
    LET flags == data[1]
        time_offset_present == Bit(flags, 0)
        concentration_and_type_present == Bit(flags, 1)
        status_annunciation_present == Bit(flags, 3)
        hasOff == time_offset_present /\ Len(data) >= 10 + 2
        offset1 == IF hasOff THEN 12 ELSE 10
        hasConc == concentration_and_type_present /\ Len(data) >= offset1 + 3
        offset2 == IF hasConc THEN offset1 + 3 ELSE offset1
        hasStatus == status_annunciation_present /\ Len(data) >= offset2 + 2
        glucose_raw == LE16(data, offset1 + 1)
    IN [error |-> FALSE,
        flags |-> flags,
        units |-> IF Bit(flags, 2) THEN "mmol/L" ELSE "mg/dL",
        context_follows |-> Bit(flags, 4),
        sequence_number |-> LE16(data, 2),
        timestamp |-> <<LE16(data, 4), data[6], data[7], data[8], data[9], data[10]>>,
        time_offset_minutes |-> IF hasOff THEN Some(SignedLE16(data, 11)) ELSE None,
        glucose_value |-> IF hasConc
                          THEN Some(Canon(SfloatMantissa(glucose_raw),
                                          SfloatExponent(glucose_raw)))
                          ELSE None,
        sample_type |-> IF hasConc THEN Some((data[offset1 + 3] \div 16) % 16) ELSE None,
        sample_location |-> IF hasConc THEN Some(data[offset1 + 3] % 16) ELSE None,
        status |-> IF hasStatus THEN Some(LE16(data, offset2 + 1)) ELSE None]

\* ------------------------------------------------------------------------
\* GlucoseMeterListener.decode_racp_response
\* ------------------------------------------------------------------------
\* variant: the table ends at "Procedure Not Completed"
response_codes_short(code) ==
    CASE code = 1 -> "Success"
      [] code = 2 -> "Op Code Not Supported"
      [] code = 3 -> "Invalid Operator"
      [] code = 4 -> "Operator Not Supported"
      [] code = 5 -> "Invalid Operand"
      [] code = 6 -> "No Records Found"
      [] code = 7 -> "Abort Unsuccessful"
      [] code = 8 -> "Procedure Not Completed"
      [] OTHER -> "Unknown"

response_codes(code) ==
    CASE code = 1 -> "Success"
      [] code = 2 -> "Op Code Not Supported"
      [] code = 3 -> "Invalid Operator"
      [] code = 4 -> "Operator Not Supported"
      [] code = 5 -> "Invalid Operand"
      [] code = 6 -> "No Records Found"
      [] code = 7 -> "Abort Unsuccessful"
      [] code = 8 -> "Procedure Not Completed"
      [] code = 9 -> "Operand Not Supported"
      [] OTHER -> "Unknown"

\* variant: a buffer of one byte is taken as an opcode without operator
decode_racp_response_onebyte(data) ==
    IF Len(data) < 1
    THEN [error |-> TRUE, opcode |-> None, operator |-> None,
          request_opcode |-> None, response_code |-> None,
          response_text |-> None, num_records |-> None, raw_hex |-> data]
    ELSE
    LET opcode == data[1]
        isResp == opcode = RACP_OPCODE_RESPONSE_CODE /\ Len(data) >= 4
        isNum == opcode = RACP_OPCODE_NUM_RESPONSE /\ Len(data) >= 4
    IN [error |-> FALSE,
        opcode |-> Some(opcode),
        operator |-> IF Len(data) > 1 THEN Some(data[2]) ELSE None,
        request_opcode |-> IF isResp THEN Some(data[3]) ELSE None,
        response_code |-> IF isResp THEN Some(data[4]) ELSE None,
        response_text |-> IF isResp THEN Some(response_codes(data[4])) ELSE None,
        num_records |-> IF isNum THEN Some(LE16(data, 3)) ELSE None,
        raw_hex |-> data]

\* variant: the count is read from one byte
decode_racp_response_byte(data) ==
    IF Len(data) < 2
    THEN [error |-> TRUE, opcode |-> None, operator |-> None,
          request_opcode |-> None, response_code |-> None,
          response_text |-> None, num_records |-> None, raw_hex |-> data]
    ELSE
    LET opcode == data[1]
        isResp == opcode = RACP_OPCODE_RESPONSE_CODE /\ Len(data) >= 4
        isNum == opcode = RACP_OPCODE_NUM_RESPONSE /\ Len(data) >= 4
    IN [error |-> FALSE,
        opcode |-> Some(opcode),
        operator |-> Some(data[2]),
        request_opcode |-> IF isResp THEN Some(data[3]) ELSE None,
        response_code |-> IF isResp THEN Some(data[4]) ELSE None,
        response_text |-> IF isResp THEN Some(response_codes(data[4])) ELSE None,
        num_records |-> IF isNum THEN Some(data[3]) ELSE None,
        raw_hex |-> data]

decode_racp_response(data) ==
    IF Len(data) < 2
    THEN [error |-> TRUE, opcode |-> None, operator |-> None,
          request_opcode |-> None, response_code |-> None,
          response_text |-> None, num_records |-> None, raw_hex |-> data]
    ELSE
    LET opcode == data[1]
        isResp == opcode = RACP_OPCODE_RESPONSE_CODE /\ Len(data) >= 4
        isNum == opcode = RACP_OPCODE_NUM_RESPONSE /\ Len(data) >= 4
    IN [error |-> FALSE,
        opcode |-> Some(opcode),
        operator |-> Some(data[2]),
        request_opcode |-> IF isResp THEN Some(data[3]) ELSE None,
        response_code |-> IF isResp THEN Some(data[4]) ELSE None,
        response_text |-> IF isResp THEN Some(response_codes(data[4])) ELSE None,
        num_records |-> IF isNum THEN Some(LE16(data, 3)) ELSE None,
        raw_hex |-> data]

\* ------------------------------------------------------------------------
\* BLEListener.decode_racp_response.  It returns text; the record holds what
\* each line is formatted from: a name of the table, or <<"Unknown", n>> for
\* f'Unknown ({n})'.
\* ------------------------------------------------------------------------
ble_op_codes(op_code) ==
    CASE op_code = 1 -> <<"Report stored records">>
      [] op_code = 2 -> <<"Delete stored records">>
      [] op_code = 3 -> <<"Abort operation">>
      [] op_code = 4 -> <<"Report number of stored records">>
      [] op_code = 5 -> <<"Number of stored records response">>
      [] op_code = 6 -> <<"Response code">>
      [] OTHER -> <<"Unknown", op_code>>

ble_response_codes(code) ==
    CASE code = 1 -> <<"Success">>
      [] code = 2 -> <<"Op code not supported">>
      [] code = 3 -> <<"Invalid operator">>
      [] code = 4 -> <<"Operator not supported">>
      [] code = 5 -> <<"Invalid operand">>
      [] code = 6 -> <<"No records found">>
      [] code = 7 -> <<"Abort unsuccessful">>
      [] code = 8 -> <<"Procedure not completed">>
      [] code = 9 -> <<"Operand not supported">>
      [] OTHER -> <<"Unknown", code>>

ble_decode_racp_response(data) ==
    IF Len(data) < 2
    THEN [error |-> TRUE, op_code |-> None, operator |-> None,
          request_op_code |-> None, response |-> None, num_records |-> None]
    ELSE
    LET op_code == data[1]
        isResp == op_code = 6 /\ Len(data) >= 4
        isNum == op_code = 5 /\ Len(data) >= 4
    IN [error |-> FALSE,
        op_code |-> Some(ble_op_codes(op_code)),
        operator |-> Some(data[2]),
        request_op_code |-> IF isResp THEN Some(ble_op_codes(data[3])) ELSE None,
        response |-> IF isResp THEN Some(ble_response_codes(data[4])) ELSE None,
        num_records |-> IF isNum THEN Some(LE16(data, 3)) ELSE None]

\* ------------------------------------------------------------------------
\* What the device can send: (characteristic, payload)
\* ------------------------------------------------------------------------
\* 06 01 00 E8 07 06 0F 08 1E 00 64 00 10: sequence 1, 100 mmol/L
GM_A == <<6, 1, 0, 232, 7, 6, 15, 8, 30, 0, 100, 0, 16>>
\* sequence 2, 120 mg/dL
GM_B == <<2, 2, 0, 232, 7, 6, 15, 9, 0, 0, 120, 0, 17>>
\* nine bytes: shorter than the fixed prefix
GM_SHORT == <<6, 3, 0, 232, 7, 6, 15, 8, 30>>

RACP_COUNT3 == <<5, 0, 3, 0>>
RACP_SUCCESS == <<6, 0, 1, 1>>
RACP_NO_RECORDS == <<6, 0, 1, 6>>
RACP_NOT_SUPPORTED == <<6, 0, 1, 2>>
RACP_TRUNCATED == <<6, 0>>
RACP_ONE_BYTE == <<6>>

CTX_A == <<1, 1, 0>>

GmPayloads == {GM_A, GM_B, GM_SHORT}
RacpPayloads == {RACP_COUNT3, RACP_SUCCESS, RACP_NO_RECORDS,
                 RACP_NOT_SUPPORTED, RACP_TRUNCATED, RACP_ONE_BYTE}
Notifications ==
    ({GLUCOSE_MEASUREMENT_UUID} \X GmPayloads)
    \cup ({RACP_UUID} \X RacpPayloads)
    \cup ({GLUCOSE_CONTEXT_UUID} \X {CTX_A})

\* ------------------------------------------------------------------------
\* State
\* ------------------------------------------------------------------------
VARIABLES
    script,                 \* "gm" (gm_listener.py) or "ble" (ble_listener.py)
    pc,                     \* position of the coroutine
    connected,              \* client.is_connected
    subscribed,             \* characteristics with an active start_notify
    measurements_received,  \* self.measurements_received
    racp_response_received, \* self.racp_response_received
    total_records,          \* self.total_records
    elapsed,                \* elapsed / connection_time of the wait loop
    keep,                   \* i of the keep-alive loop
    subscribe_uuids,        \* BLEListener config: subscribe_uuids
    request_all_records,    \* BLEListener config: request_all_records
    subIdx,                 \* BLEListener: index in subscribe_uuids
    writes,                 \* history: RACP writes handed to the transport
    gmLog,                  \* history: Glucose Measurement payloads delivered
    racpSeen,               \* history: RACP payloads delivered
    nNotifs,                \* history: notifications delivered so far
    handler_raised,         \* history: a notification_handler call raised
    outcome,                \* what the run reported when it stopped waiting
    invocation,             \* calls of connect_and_retrieve_data on this listener
    buf,                    \* decoder runs: the buffer handed to the decoder
    returned                \* decoder runs: what the decoder returned

vars == <<script, pc, connected, subscribed, measurements_received,
          racp_response_received, total_records, elapsed, keep,
          subscribe_uuids, request_all_records, subIdx,
          writes, gmLog, racpSeen, nNotifs, handler_raised, outcome,
          invocation, buf, returned>>

sessionVars == <<measurements_received, racp_response_received, total_records>>
configVars == <<script, subscribe_uuids, request_all_records,
                invocation, buf, returned>>
logVars == <<gmLog, racpSeen, nNotifs, handler_raised>>

NoOutcome == [state |-> "None", cause |-> "none", report |-> "none",
              measurements |-> <<>>, recordCount |-> 0]

\* variant: the completion texts are compared in the wrong case, so neither
\* "Success" nor "No Records Found" sets racp_response_received
notification_handler_deaf(uuid, data, ms, rr, tr) ==
    LET same == [ms |-> ms, rr |-> rr, tr |-> tr, raised |-> FALSE] IN
    IF uuid = GLUCOSE_MEASUREMENT_UUID THEN
        LET decoded == decode_glucose_measurement(data) IN
        IF ~decoded.error
        THEN [same EXCEPT !.ms = Append(ms, decoded)]
        ELSE same
    ELSE IF uuid = RACP_UUID THEN
        LET decoded == decode_racp_response(data) IN
        IF decoded.response_text # None THEN same
        ELSE IF decoded.num_records # None
        THEN [same EXCEPT !.tr = decoded.num_records[1]]
        ELSE IF decoded.error THEN [same EXCEPT !.raised = TRUE]
        ELSE same
    ELSE same

\* variant: a measurement whose sequence number is already held is dropped
notification_handler_dedup(uuid, data, ms, rr, tr) ==
    LET same == [ms |-> ms, rr |-> rr, tr |-> tr, raised |-> FALSE] IN
    IF uuid = GLUCOSE_MEASUREMENT_UUID THEN
        LET decoded == decode_glucose_measurement(data) IN
        IF ~decoded.error
           /\ \A i \in 1..Len(ms) :
                 ms[i].sequence_number # decoded.sequence_number
        THEN [same EXCEPT !.ms = Append(ms, decoded)]
        ELSE same
    ELSE IF uuid = RACP_UUID THEN
        LET decoded == decode_racp_response(data) IN
        IF decoded.response_text # None THEN
            IF decoded.response_text \in {Some("Success"),
                                          Some("No Records Found")}
            THEN [same EXCEPT !.rr = TRUE]
            ELSE same
        ELSE IF decoded.num_records # None
        THEN [same EXCEPT !.tr = decoded.num_records[1]]
        ELSE IF decoded.error THEN [same EXCEPT !.raised = TRUE]
        ELSE same
    ELSE same

\* variant: a notification of any other characteristic counts as a record
notification_handler_other(uuid, data, ms, rr, tr) ==
    LET same == [ms |-> ms, rr |-> rr, tr |-> tr, raised |-> FALSE] IN
    IF uuid = GLUCOSE_MEASUREMENT_UUID THEN
        LET decoded == decode_glucose_measurement(data) IN
        IF ~decoded.error
        THEN [same EXCEPT !.ms = Append(ms, decoded)]
        ELSE same
    ELSE IF uuid = RACP_UUID THEN
        LET decoded == decode_racp_response(data) IN
        IF decoded.response_text # None THEN
            IF decoded.response_text \in {Some("Success"),
                                          Some("No Records Found")}
            THEN [same EXCEPT !.rr = TRUE]
            ELSE same
        ELSE IF decoded.num_records # None
        THEN [same EXCEPT !.tr = decoded.num_records[1]]
        ELSE IF decoded.error THEN [same EXCEPT !.raised = TRUE]
        ELSE same
    ELSE [same EXCEPT !.tr = tr + 1]

\* variant: what the decoder returns is appended without a look at 'error'
notification_handler_unchecked(uuid, data, ms, rr, tr) ==
    LET same == [ms |-> ms, rr |-> rr, tr |-> tr, raised |-> FALSE] IN
    IF uuid = GLUCOSE_MEASUREMENT_UUID THEN
        [same EXCEPT !.ms = Append(ms, decode_glucose_measurement(data))]
    ELSE IF uuid = RACP_UUID THEN
        LET decoded == decode_racp_response(data) IN
        IF decoded.response_text # None THEN
            IF decoded.response_text \in {Some("Success"),
                                          Some("No Records Found")}
            THEN [same EXCEPT !.rr = TRUE]
            ELSE same
        ELSE IF decoded.num_records # None
        THEN [same EXCEPT !.tr = decoded.num_records[1]]
        ELSE IF decoded.error THEN [same EXCEPT !.raised = TRUE]
        ELSE same
    ELSE same

\* variant: any RACP response that is not a count ends the wait
notification_handler_anyracp(uuid, data, ms, rr, tr) ==
    LET same == [ms |-> ms, rr |-> rr, tr |-> tr, raised |-> FALSE] IN
    IF uuid = GLUCOSE_MEASUREMENT_UUID THEN
        LET decoded == decode_glucose_measurement(data) IN
        IF ~decoded.error
        THEN [same EXCEPT !.ms = Append(ms, decoded)]
        ELSE same
    ELSE IF uuid = RACP_UUID THEN
        LET decoded == decode_racp_response(data) IN
        IF decoded.num_records # None
        THEN [same EXCEPT !.tr = decoded.num_records[1]]
        ELSE IF decoded.error THEN [same EXCEPT !.raised = TRUE]
        ELSE [same EXCEPT !.rr = TRUE]
    ELSE same

\* variant: "No Records Found" is handled like the other result codes and
\* does not set racp_response_received
notification_handler_norecs(uuid, data, ms, rr, tr) ==
    LET same == [ms |-> ms, rr |-> rr, tr |-> tr, raised |-> FALSE] IN
    IF uuid = GLUCOSE_MEASUREMENT_UUID THEN
        LET decoded == decode_glucose_measurement(data) IN
        IF ~decoded.error
        THEN [same EXCEPT !.ms = Append(ms, decoded)]
        ELSE same
    ELSE IF uuid = RACP_UUID THEN
        LET decoded == decode_racp_response(data) IN
        IF decoded.response_text # None THEN
            IF decoded.response_text = Some("Success")
            THEN [same EXCEPT !.rr = TRUE]
            ELSE same
        ELSE IF decoded.num_records # None
        THEN [same EXCEPT !.tr = decoded.num_records[1]]
        ELSE IF decoded.error THEN [same EXCEPT !.raised = TRUE]
        ELSE same
    ELSE same

\* ------------------------------------------------------------------------
\* GlucoseMeterListener.notification_handler, as a function of the
\* listener's fields.  raised: the call ended in an exception.
\* ------------------------------------------------------------------------
notification_handler(uuid, data, ms, rr, tr) ==
    LET same == [ms |-> ms, rr |-> rr, tr |-> tr, raised |-> FALSE] IN
    IF uuid = GLUCOSE_MEASUREMENT_UUID THEN
        LET decoded == decode_glucose_measurement(data) IN
        IF ~decoded.error
        THEN [same EXCEPT !.ms = Append(ms, decoded)]
        ELSE same
    ELSE IF uuid = GLUCOSE_CONTEXT_UUID THEN same
    ELSE IF uuid = RACP_UUID THEN
        LET decoded == decode_racp_response(data) IN
        IF decoded.response_text # None THEN
            IF decoded.response_text = Some("Success")
            THEN [same EXCEPT !.rr = TRUE]
            ELSE IF decoded.response_text = Some("No Records Found")
            THEN [same EXCEPT !.rr = TRUE]
            ELSE same
        ELSE IF decoded.num_records # None
        THEN [same EXCEPT !.tr = decoded.num_records[1]]
        \* decoded['opcode'] of the error dictionary: KeyError
        ELSE IF decoded.error THEN [same EXCEPT !.raised = TRUE]
        ELSE same
    ELSE same

\* ------------------------------------------------------------------------
\* The transport
\* ------------------------------------------------------------------------
\* positions at which the coroutine is suspended in an await
GmAwaits == {"sub_gm", "sub_ctx", "sub_racp", "settle", "count_pending",
             "count_wait", "all_pending", "sleep", "keep_sleep"}
BleAwaits == {"ble_sub", "ble_settle", "ble_count_pending", "ble_count_wait",
              "ble_all_pending", "ble_all_wait", "ble_sleep"}
Awaits == GmAwaits \cup BleAwaits

Command(opcode, operator) == <<opcode, operator>>

\* client.write_gatt_char is entered: the command is with the transport
WriteBegin(opcode, operator) ==
    Append(writes, [cmd |-> Command(opcode, operator), status |-> "pending"])

\* variant: write_gatt_char is not awaited, the command stays outstanding
WriteEnd_unawaited(ok) == writes

\* client.write_gatt_char returns (acked) or raises (failed)
WriteEnd(ok) ==
    [writes EXCEPT ![Len(writes)].status = IF ok THEN "acked" ELSE "failed"]

Outstanding == {i \in 1..Len(writes) : writes[i].status = "pending"}

\* what the transport can answer: an error at any time, success only while
\* connected
Answers == IF connected THEN BOOLEAN ELSE {FALSE}

\* the device drops the link
Disconnect ==
    /\ pc \in Awaits
    /\ connected
    /\ connected' = FALSE
    /\ UNCHANGED <<pc, subscribed, sessionVars, elapsed, keep, configVars,
                   subIdx, writes, logVars, outcome>>

\* ------------------------------------------------------------------------
\* GlucoseMeterListener.connect_and_retrieve_data
\* ------------------------------------------------------------------------
\* the session state of the design, read off the coroutine's position
State ==
    IF outcome.state # "None" THEN outcome.state
    ELSE IF pc \in {"sub_gm", "sub_ctx", "sub_racp", "settle",
                    "ble_sub", "ble_settle"} THEN "Idle"
    ELSE IF pc \in {"count_pending", "count_wait",
                    "ble_count_pending", "ble_count_wait"} THEN "AwaitingCount"
    ELSE IF pc \in {"all_pending", "loop", "sleep", "ble_all_pending",
                    "ble_all_wait", "ble_loop", "ble_sleep"} THEN "AwaitingRecords"
    ELSE "None"

\* the histories after the delivery of notification n
Logged(n) ==
    /\ gmLog' = IF n[1] = GLUCOSE_MEASUREMENT_UUID
                THEN Append(gmLog, n[2]) ELSE gmLog
    /\ racpSeen' = IF n[1] = RACP_UUID
                   THEN racpSeen \cup {n[2]} ELSE racpSeen
    /\ nNotifs' = nNotifs + 1

Terminal == {"Completed", "NoRecords", "Failed", "TimedOut", "Aborted"}

\* the branch of the summary that is printed (lines 487-507)
SummaryText ==
    IF Len(measurements_received) > 0 THEN "success"
    ELSE IF racp_response_received THEN "no_records"
    ELSE "no_data"

\* state: how the wait ended; cause: the test of the code that ended it;
\* report: what was printed; measurements: the list the summary prints
Report(st, cause, text) ==
    [state |-> st, cause |-> cause, report |-> text,
     measurements |-> measurements_received, recordCount |-> total_records]

\* lines 400-408: start_notify(GLUCOSE_MEASUREMENT_UUID), failure printed
SubscribeMeasurement ==
    /\ script = "gm" /\ pc = "sub_gm"
    /\ \E ok \in Answers :
         subscribed' = IF ok THEN subscribed \cup {GLUCOSE_MEASUREMENT_UUID}
                       ELSE subscribed
    /\ pc' = "sub_ctx"
    /\ UNCHANGED <<connected, sessionVars, elapsed, keep, configVars, subIdx,
                   writes, logVars, outcome>>

\* lines 410-418: start_notify(GLUCOSE_CONTEXT_UUID), failure tolerated
SubscribeContext ==
    /\ script = "gm" /\ pc = "sub_ctx"
    /\ \E ok \in Answers :
         subscribed' = IF ok THEN subscribed \cup {GLUCOSE_CONTEXT_UUID}
                       ELSE subscribed
    /\ pc' = "sub_racp"
    /\ UNCHANGED <<connected, sessionVars, elapsed, keep, configVars, subIdx,
                   writes, logVars, outcome>>

\* lines 420-430: start_notify(RACP_UUID); on failure the coroutine returns
SubscribeRacp ==
    /\ script = "gm" /\ pc = "sub_racp"
    /\ \E ok \in Answers :
         IF ok
         THEN /\ subscribed' = subscribed \cup {RACP_UUID}
              /\ pc' = "settle"
              /\ UNCHANGED <<outcome, connected>>
         ELSE /\ pc' = "done"
              /\ outcome' = Report("Failed", "subscription", "racp_subscription_failed")
              /\ connected' = FALSE
              /\ subscribed' = {}
    /\ UNCHANGED <<sessionVars, elapsed, keep, configVars, subIdx,
                   writes, logVars>>

\* variant: the two requests are issued in the other order
WriteCountBegin_swapped ==
    /\ script = "gm" /\ pc = "settle"
    /\ writes' = WriteBegin(RACP_OPCODE_REPORT_STORED_RECORDS, RACP_OPERATOR_ALL_RECORDS)
    /\ pc' = "count_pending"
    /\ UNCHANGED <<connected, subscribed, sessionVars, elapsed, keep,
                   configVars, subIdx, logVars, outcome>>

\* lines 443-445: write_racp_command(REPORT_NUM_RECORDS, ALL_RECORDS) begins
WriteCountBegin ==
    /\ script = "gm" /\ pc = "settle"
    /\ writes' = WriteBegin(RACP_OPCODE_REPORT_NUM_RECORDS, RACP_OPERATOR_ALL_RECORDS)
    /\ pc' = "count_pending"
    /\ UNCHANGED <<connected, subscribed, sessionVars, elapsed, keep,
                   configVars, subIdx, logVars, outcome>>

\* variant: a failed count write is tried again
WriteCountEnd_retry ==
    /\ script = "gm" /\ pc = "count_pending"
    /\ \E ok \in Answers :
         /\ writes' = WriteEnd(ok)
         /\ pc' = IF ok \/ Len(writes) >= 3 THEN "count_wait" ELSE "settle"
    /\ UNCHANGED <<connected, subscribed, sessionVars, elapsed, keep,
                   configVars, subIdx, logVars, outcome>>

\* lines 340-348, 445-446: the write returns; its result is not looked at
WriteCountEnd ==
    /\ script = "gm" /\ pc = "count_pending"
    /\ \E ok \in Answers : writes' = WriteEnd(ok)
    /\ pc' = "count_wait"
    /\ UNCHANGED <<connected, subscribed, sessionVars, elapsed, keep,
                   configVars, subIdx, logVars, outcome>>

\* lines 446-453: after the two seconds, write_racp_command(REPORT_STORED_RECORDS,
\* ALL_RECORDS) begins
WriteAllBegin ==
    /\ script = "gm" /\ pc = "count_wait"
    /\ writes' = WriteBegin(RACP_OPCODE_REPORT_STORED_RECORDS, RACP_OPERATOR_ALL_RECORDS)
    /\ pc' = "all_pending"
    /\ UNCHANGED <<connected, subscribed, sessionVars, elapsed, keep,
                   configVars, subIdx, logVars, outcome>>

\* lines 450-468: the write returns; on failure the coroutine returns
WriteAllEnd ==
    /\ script = "gm" /\ pc = "all_pending"
    /\ \E ok \in Answers :
         /\ writes' = WriteEnd(ok)
         /\ IF ok
            THEN /\ pc' = "loop"
                 /\ elapsed' = 0
                 /\ UNCHANGED <<outcome, connected, subscribed>>
            ELSE /\ pc' = "done"
                 /\ outcome' = Report("Failed", "write", "write_failed")
                 /\ connected' = FALSE
                 /\ subscribed' = {}
                 /\ UNCHANGED elapsed
    /\ UNCHANGED <<sessionVars, keep, configVars, subIdx, logVars>>

\* variant: a timeout discards what was received
Summary_drop(cause) ==
    IF cause = "disconnected" THEN Report("Failed", cause, SummaryText)
    ELSE IF cause = "timeout"
    THEN [Report("TimedOut", cause, "no_data") EXCEPT !.measurements = <<>>]
    ELSE IF SummaryText = "success" THEN Report("Completed", cause, SummaryText)
    ELSE Report("NoRecords", cause, SummaryText)

\* lines 482-509: the summary that ends the wait
Summary(cause) ==
    IF cause = "disconnected" THEN Report("Failed", cause, SummaryText)
    ELSE IF cause = "timeout" THEN Report("TimedOut", cause, SummaryText)
    ELSE IF SummaryText = "success" THEN Report("Completed", cause, SummaryText)
    ELSE Report("NoRecords", cause, SummaryText)

\* variant: leaving the loop on the deadline writes AbortOperation/Null
LoopTest_abort ==
    /\ script = "gm" /\ pc = "loop"
    /\ IF elapsed < timeout /\ ~racp_response_received
       THEN /\ IF ~connected
               THEN /\ outcome' = Report("Failed", "disconnected", SummaryText)
                    /\ pc' = "keepalive"
                    /\ keep' = 0
               ELSE /\ pc' = "sleep"
                    /\ UNCHANGED <<outcome, keep>>
            /\ UNCHANGED writes
       ELSE /\ outcome' = IF racp_response_received
                          THEN Report(IF SummaryText = "success" THEN "Completed"
                                      ELSE "NoRecords", "response", SummaryText)
                          ELSE Report("TimedOut", "timeout", SummaryText)
            /\ writes' = IF racp_response_received THEN writes
                         ELSE Append(writes,
                                [cmd |-> Command(RACP_OPCODE_ABORT_OPERATION,
                                                 RACP_OPERATOR_NULL),
                                 status |-> "acked"])
            /\ pc' = "keepalive"
            /\ keep' = 0
    /\ UNCHANGED <<connected, subscribed, sessionVars, elapsed, configVars,
                   subIdx, logVars>>

\* lines 470-473, 482-513: the loop test; leaving the loop prints the summary
\* and enters the keep-alive loop
LoopTest ==
    /\ script = "gm" /\ pc = "loop"
    /\ IF elapsed < timeout /\ ~racp_response_received
       THEN IF ~connected
            THEN /\ outcome' = Summary("disconnected")
                 /\ pc' = "keepalive"
                 /\ keep' = 0
            ELSE /\ pc' = "sleep"
                 /\ UNCHANGED <<outcome, keep>>
       ELSE /\ outcome' = Summary(IF racp_response_received
                                  THEN "response" ELSE "timeout")
            /\ pc' = "keepalive"
            /\ keep' = 0
    /\ UNCHANGED <<connected, subscribed, sessionVars, elapsed, configVars,
                   subIdx, writes, logVars>>

\* lines 475-476: asyncio.sleep(1) returns; elapsed += 1
SleepEnd ==
    /\ script = "gm" /\ pc = "sleep"
    /\ elapsed' = elapsed + 1
    /\ pc' = "loop"
    /\ UNCHANGED <<connected, subscribed, sessionVars, keep, configVars,
                   subIdx, writes, logVars, outcome>>

\* variant: the coroutine returns with the notifications still enabled
KeepAliveTest_leak ==
    /\ script = "gm" /\ pc = "keepalive"
    /\ pc' = IF keep < KeepAliveSecs /\ connected THEN "keep_sleep" ELSE "done"
    /\ UNCHANGED <<connected, subscribed, sessionVars, elapsed, keep,
                   configVars, subIdx, writes, logVars, outcome>>

\* lines 515-518: for i in range(10): if not client.is_connected: break
KeepAliveTest ==
    /\ script = "gm" /\ pc = "keepalive"
    /\ IF keep < KeepAliveSecs /\ connected
       THEN /\ pc' = "keep_sleep"
            /\ UNCHANGED <<connected, subscribed>>
       ELSE /\ pc' = "done"
            /\ connected' = FALSE
            /\ subscribed' = {}
    /\ UNCHANGED <<sessionVars, elapsed, keep, configVars, subIdx, writes,
                   logVars, outcome>>

\* line 519: asyncio.sleep(1) returns
KeepAliveSleepEnd ==
    /\ script = "gm" /\ pc = "keep_sleep"
    /\ keep' = keep + 1
    /\ pc' = "keepalive"
    /\ UNCHANGED <<connected, subscribed, sessionVars, elapsed, configVars,
                   subIdx, writes, logVars, outcome>>

\* bleak calls self.notification_handler while the coroutine is suspended
GmNotify ==
    /\ script = "gm" /\ pc \in GmAwaits
    /\ connected
    /\ nNotifs < MaxNotifs
    /\ \E n \in Notifications :
         /\ n[1] \in subscribed
         /\ LET r == notification_handler(n[1], n[2], measurements_received,
                                          racp_response_received, total_records)
            IN /\ measurements_received' = r.ms
               /\ racp_response_received' = r.rr
               /\ total_records' = r.tr
               /\ handler_raised' = (handler_raised \/ r.raised)
         /\ Logged(n)
    /\ UNCHANGED <<pc, connected, subscribed, elapsed, keep, configVars,
                   subIdx, writes, outcome>>

\* variant: an interrupt during the keep-alive period replaces the outcome
GmCancel_overwrite ==
    /\ script = "gm" /\ pc \in GmAwaits
    /\ pc' = "done"
    /\ outcome' = Report("Aborted", "cancelled", "interrupted")
    /\ writes' = [i \in 1..Len(writes) |->
                    IF writes[i].status = "pending"
                    THEN [writes[i] EXCEPT !.status = "cancelled"]
                    ELSE writes[i]]
    /\ connected' = FALSE
    /\ subscribed' = {}
    /\ UNCHANGED <<sessionVars, elapsed, keep, configVars, subIdx, logVars>>

\* lines 556-557 (main): Ctrl-C cancels the coroutine at its await; the
\* client context manager disconnects
GmCancel ==
    /\ script = "gm" /\ pc \in GmAwaits
    /\ pc' = "done"
    /\ outcome' = IF outcome.state = "None" THEN Report("Aborted", "cancelled", "interrupted")
                  ELSE outcome
    /\ writes' = [i \in 1..Len(writes) |->
                    IF writes[i].status = "pending"
                    THEN [writes[i] EXCEPT !.status = "cancelled"]
                    ELSE writes[i]]
    /\ connected' = FALSE
    /\ subscribed' = {}
    /\ UNCHANGED <<sessionVars, elapsed, keep, configVars, subIdx, logVars>>

\* ------------------------------------------------------------------------
\* BLEListener.connect_and_listen
\* ------------------------------------------------------------------------
\* lines 479-491: start_notify for each configured uuid, failures printed
BleSubscribe ==
    /\ script = "ble" /\ pc = "ble_sub"
    /\ subIdx <= Len(subscribe_uuids)
    /\ \E ok \in Answers :
         subscribed' = IF ok THEN subscribed \cup {subscribe_uuids[subIdx]}
                       ELSE subscribed
    /\ subIdx' = subIdx + 1
    /\ UNCHANGED <<pc, connected, sessionVars, elapsed, keep, configVars,
                   writes, logVars, outcome>>

\* lines 493-495: the RACP requests are made when the RACP uuid is configured
\* and request_all_records is set
RequestsWanted ==
    /\ \E i \in 1..Len(subscribe_uuids) : subscribe_uuids[i] = RACP_UUID
    /\ request_all_records

BleSubscribed ==
    /\ script = "ble" /\ pc = "ble_sub"
    /\ subIdx > Len(subscribe_uuids)
    /\ pc' = IF RequestsWanted THEN "ble_settle" ELSE "ble_loop"
    /\ UNCHANGED <<connected, subscribed, sessionVars, elapsed, keep,
                   configVars, subIdx, writes, logVars, outcome>>

\* lines 378-391, 498: request_number_of_records begins its write
BleCountBegin ==
    /\ script = "ble" /\ pc = "ble_settle"
    /\ writes' = WriteBegin(4, 1)
    /\ pc' = "ble_count_pending"
    /\ UNCHANGED <<connected, subscribed, sessionVars, elapsed, keep,
                   configVars, subIdx, logVars, outcome>>

\* lines 391-398: the write returns or raises; the result is not looked at
BleCountEnd ==
    /\ script = "ble" /\ pc = "ble_count_pending"
    /\ \E ok \in Answers : writes' = WriteEnd(ok)
    /\ pc' = "ble_count_wait"
    /\ UNCHANGED <<connected, subscribed, sessionVars, elapsed, keep,
                   configVars, subIdx, logVars, outcome>>

\* lines 356-369, 499-502: request_all_stored_records begins its write
BleAllBegin ==
    /\ script = "ble" /\ pc = "ble_count_wait"
    /\ writes' = WriteBegin(1, 1)
    /\ pc' = "ble_all_pending"
    /\ UNCHANGED <<connected, subscribed, sessionVars, elapsed, keep,
                   configVars, subIdx, logVars, outcome>>

\* lines 369-376: the write returns or raises; the result is not looked at
BleAllEnd ==
    /\ script = "ble" /\ pc = "ble_all_pending"
    /\ \E ok \in Answers : writes' = WriteEnd(ok)
    /\ pc' = "ble_all_wait"
    /\ UNCHANGED <<connected, subscribed, sessionVars, elapsed, keep,
                   configVars, subIdx, logVars, outcome>>

\* lines 503-527: the two seconds pass, the connection loop starts
BleListen ==
    /\ script = "ble" /\ pc = "ble_all_wait"
    /\ pc' = "ble_loop"
    /\ UNCHANGED <<connected, subscribed, sessionVars, elapsed, keep,
                   configVars, subIdx, writes, logVars, outcome>>

\* lines 530-542: while True: if not client.is_connected: break
BleLoopTest ==
    /\ script = "ble" /\ pc = "ble_loop"
    /\ IF ~connected
       THEN /\ pc' = "done"
            /\ subscribed' = {}
       ELSE /\ pc' = "ble_sleep"
            /\ UNCHANGED subscribed
    /\ UNCHANGED <<connected, sessionVars, elapsed, keep, configVars, subIdx,
                   writes, logVars, outcome>>

\* lines 549-550: asyncio.sleep(1) returns; connection_time += 1
BleSleepEnd ==
    /\ script = "ble" /\ pc = "ble_sleep"
    /\ elapsed < MaxConnTime
    /\ elapsed' = elapsed + 1
    /\ pc' = "ble_loop"
    /\ UNCHANGED <<connected, subscribed, sessionVars, keep, configVars,
                   subIdx, writes, logVars, outcome>>

\* lines 307-354: BLEListener.notification_handler decodes and prints; it
\* assigns no field of the listener
BleNotify ==
    /\ script = "ble" /\ pc \in BleAwaits
    /\ connected
    /\ nNotifs < MaxNotifs
    /\ \E n \in Notifications :
         /\ n[1] \in subscribed
         /\ Logged(n)
    /\ UNCHANGED <<pc, connected, subscribed, sessionVars, elapsed, keep,
                   configVars, subIdx, writes, handler_raised, outcome>>

\* lines 555-556: asyncio.CancelledError at the await
BleCancel ==
    /\ script = "ble" /\ pc \in BleAwaits
    /\ pc' = "done"
    /\ writes' = [i \in 1..Len(writes) |->
                    IF writes[i].status = "pending"
                    THEN [writes[i] EXCEPT !.status = "cancelled"]
                    ELSE writes[i]]
    /\ connected' = FALSE
    /\ subscribed' = {}
    /\ UNCHANGED <<sessionVars, elapsed, keep, configVars, subIdx, logVars,
                   outcome>>

\* ------------------------------------------------------------------------
\* The runs
\* ------------------------------------------------------------------------
\* config.json of ble_listener.py
BleConfigs == {<<>>,
               <<GLUCOSE_MEASUREMENT_UUID>>,
               <<GLUCOSE_MEASUREMENT_UUID, GLUCOSE_CONTEXT_UUID, RACP_UUID>>}

\* __init__ of either listener, then the connection is up
Init ==
    /\ script \in {"gm", "ble"}
    /\ IF script = "gm"
       THEN /\ pc = "sub_gm"
            /\ subscribe_uuids = <<>>
            /\ request_all_records = FALSE
       ELSE /\ pc = "ble_sub"
            /\ subscribe_uuids \in BleConfigs
            /\ request_all_records \in BOOLEAN
    /\ connected = TRUE
    /\ subscribed = {}
    /\ measurements_received = <<>>
    /\ racp_response_received = FALSE
    /\ total_records = 0
    /\ elapsed = 0
    /\ keep = 0
    /\ subIdx = 1
    /\ writes = <<>>
    /\ gmLog = <<>>
    /\ racpSeen = {}
    /\ nNotifs = 0
    /\ handler_raised = FALSE
    /\ outcome = NoOutcome
    /\ invocation = 1
    /\ buf = <<>>
    /\ returned = None

Next ==
    \/ SubscribeMeasurement
    \/ SubscribeContext
    \/ SubscribeRacp
    \/ WriteCountBegin
    \/ WriteCountEnd
    \/ WriteAllBegin
    \/ WriteAllEnd
    \/ LoopTest
    \/ SleepEnd
    \/ KeepAliveTest
    \/ KeepAliveSleepEnd
    \/ GmNotify
    \/ GmCancel
    \/ Disconnect
    \/ BleSubscribe
    \/ BleSubscribed
    \/ BleCountBegin
    \/ BleCountEnd
    \/ BleAllBegin
    \/ BleAllEnd
    \/ BleListen
    \/ BleLoopTest
    \/ BleSleepEnd
    \/ BleNotify
    \/ BleCancel

Spec == Init /\ [][Next]_vars

\* ------------------------------------------------------------------------
\* One listener used for more than one retrieval
\* ------------------------------------------------------------------------
\* lines 350-398: connect_and_retrieve_data is called again on the listener
\* of a finished call.  The method connects and sets its locals; it assigns
\* none of measurements_received, racp_response_received, total_records,
\* which only __init__ sets (lines 96-98).  The histories restart with the
\* call; the device's notifications are counted over both calls.
Reinvoke ==
    /\ script = "gm" /\ pc = "done"
    /\ invocation < MaxInvocations
    /\ invocation' = invocation + 1
    /\ pc' = "sub_gm"
    /\ connected' = TRUE
    /\ subscribed' = {}
    /\ elapsed' = 0
    /\ keep' = 0
    /\ writes' = <<>>
    /\ gmLog' = <<>>
    /\ racpSeen' = {}
    /\ handler_raised' = FALSE
    /\ outcome' = NoOutcome
    /\ UNCHANGED <<sessionVars, nNotifs, script, subscribe_uuids,
                   request_all_records, subIdx, buf, returned>>

InitReuse == Init /\ script = "gm"

NextReuse ==
    \/ SubscribeMeasurement
    \/ SubscribeContext
    \/ SubscribeRacp
    \/ WriteCountBegin
    \/ WriteCountEnd
    \/ WriteAllBegin
    \/ WriteAllEnd
    \/ LoopTest
    \/ SleepEnd
    \/ KeepAliveTest
    \/ KeepAliveSleepEnd
    \/ GmNotify
    \/ GmCancel
    \/ Disconnect
    \/ Reinvoke

SpecReuse == InitReuse /\ [][NextReuse]_vars

\* ------------------------------------------------------------------------
\* The record decoders on their own
\* ------------------------------------------------------------------------
\* bytes 1..9 of a record: sequence number 1, 2024-06-15 08:30:00
RecordHeader == <<1, 0, 232, 7, 6, 15, 8, 30, 0>>
\* the bytes that follow the base time
RecordTail == <<100, 0, 17, 8, 0, 33, 0>>

\* the first n bytes of a record with the given flags byte
Buffer(flags, n) ==
    LET record == <<flags>> \o RecordHeader \o RecordTail
    IN [i \in 1..n |-> IF i <= Len(record) THEN record[i] ELSE 0]

Buffers == {Buffer(f, n) : f \in 0..MaxFlags, n \in 0..MaxBufLen}

\* a 13-byte record with the concentration flag whose two concentration
\* bytes are the 16-bit value raw, little-endian
SfloatBuffer(raw) == <<2>> \o RecordHeader \o <<raw % 256, raw \div 256, 17>>

SfloatBuffers == {SfloatBuffer(raw) : raw \in 0..(2 ^ 16 - 1)}

InitDecode ==
    /\ script \in {"gm", "ble"}
    /\ pc = "decode"
    /\ buf \in Buffers \cup SfloatBuffers \cup GmPayloads
    /\ returned = None
    /\ subscribe_uuids = <<>>
    /\ request_all_records = FALSE
    /\ connected = FALSE
    /\ subscribed = {}
    /\ measurements_received = <<>>
    /\ racp_response_received = FALSE
    /\ total_records = 0
    /\ elapsed = 0
    /\ keep = 0
    /\ subIdx = 1
    /\ writes = <<>>
    /\ gmLog = <<>>
    /\ racpSeen = {}
    /\ nNotifs = 0
    /\ handler_raised = FALSE
    /\ outcome = NoOutcome
    /\ invocation = 1

\* GlucoseMeterListener.decode_glucose_measurement(buf)
GmDecode ==
    /\ script = "gm" /\ pc = "decode"
    /\ returned' = Some(decode_glucose_measurement(buf))
    /\ pc' = "decoded"
    /\ UNCHANGED <<connected, subscribed, sessionVars, elapsed, keep, script,
                   subscribe_uuids, request_all_records, invocation, buf,
                   subIdx, writes, logVars, outcome>>

\* BLEListener.decode_glucose_measurement(buf)
BleDecode ==
    /\ script = "ble" /\ pc = "decode"
    /\ returned' = Some(ble_decode_glucose_measurement(buf))
    /\ pc' = "decoded"
    /\ UNCHANGED <<connected, subscribed, sessionVars, elapsed, keep, script,
                   subscribe_uuids, request_all_records, invocation, buf,
                   subIdx, writes, logVars, outcome>>

\* lines 261-280: notification_handler is called with the buffer as a
\* Glucose Measurement notification
GmDeliver ==
    /\ script = "gm" /\ pc = "decoded"
    /\ LET r == notification_handler(GLUCOSE_MEASUREMENT_UUID, buf,
                                     measurements_received,
                                     racp_response_received, total_records)
       IN /\ measurements_received' = r.ms
          /\ racp_response_received' = r.rr
          /\ total_records' = r.tr
          /\ handler_raised' = (handler_raised \/ r.raised)
    /\ pc' = "handled"
    /\ UNCHANGED <<connected, subscribed, elapsed, keep, configVars, subIdx,
                   writes, gmLog, racpSeen, nNotifs, outcome>>

NextDecode ==
    \/ GmDecode
    \/ BleDecode
    \/ GmDeliver

SpecDecode == InitDecode /\ [][NextDecode]_vars

\* ------------------------------------------------------------------------
\* The RACP decoders on their own
\* ------------------------------------------------------------------------
\* third bytes of the buffers: a low count byte or a requested opcode
RacpThirdBytes == {0, 1, 3, 4}

\* the first n bytes of opcode, operator, two operand bytes and one more
RacpBuffer(opcode, operator, b2, b3, n) ==
    SubSeq(<<opcode, operator, b2, b3, 0>>, 1, n)

RacpBuffers ==
    {RacpBuffer(op, opr, b2, b3, n) :
        op \in 0..MaxOpcode, opr \in {RACP_OPERATOR_NULL, RACP_OPERATOR_ALL_RECORDS},
        b2 \in RacpThirdBytes, b3 \in 0..MaxResultCode, n \in 0..5}
    \cup {<<6, 0, 1, 255>>, <<5, 0, 255, 255>>, <<255, 0>>}

\* a listener that may already hold a count or a completion
InitRacp ==
    /\ script \in {"gm", "ble"}
    /\ pc = "racp_decode"
    /\ buf \in RacpBuffers
    /\ returned = None
    /\ subscribe_uuids = <<>>
    /\ request_all_records = FALSE
    /\ connected = FALSE
    /\ subscribed = {}
    /\ measurements_received = <<>>
    /\ racp_response_received \in (IF script = "gm" THEN BOOLEAN ELSE {FALSE})
    /\ total_records \in (IF script = "gm" THEN {0, 3} ELSE {0})
    /\ elapsed = 0
    /\ keep = 0
    /\ subIdx = 1
    /\ writes = <<>>
    /\ gmLog = <<>>
    /\ racpSeen = {}
    /\ nNotifs = 0
    /\ handler_raised = FALSE
    /\ outcome = NoOutcome
    /\ invocation = 1

\* GlucoseMeterListener.decode_racp_response(buf)
GmRacpDecode ==
    /\ script = "gm" /\ pc = "racp_decode"
    /\ returned' = Some(decode_racp_response(buf))
    /\ pc' = "racp_decoded"
    /\ UNCHANGED <<connected, subscribed, sessionVars, elapsed, keep, script,
                   subscribe_uuids, request_all_records, invocation, buf,
                   subIdx, writes, logVars, outcome>>

\* BLEListener.decode_racp_response(buf)
BleRacpDecode ==
    /\ script = "ble" /\ pc = "racp_decode"
    /\ returned' = Some(ble_decode_racp_response(buf))
    /\ pc' = "racp_decoded"
    /\ UNCHANGED <<connected, subscribed, sessionVars, elapsed, keep, script,
                   subscribe_uuids, request_all_records, invocation, buf,
                   subIdx, writes, logVars, outcome>>

\* lines 289-308: notification_handler is called with the buffer as an RACP
\* notification
GmRacpDeliver ==
    /\ script = "gm" /\ pc = "racp_decoded"
    /\ LET r == notification_handler(RACP_UUID, buf, measurements_received,
                                     racp_response_received, total_records)
       IN /\ measurements_received' = r.ms
          /\ racp_response_received' = r.rr
          /\ total_records' = r.tr
          /\ handler_raised' = (handler_raised \/ r.raised)
    /\ pc' = "racp_handled"
    /\ UNCHANGED <<connected, subscribed, elapsed, keep, configVars, subIdx,
                   writes, gmLog, racpSeen, nNotifs, outcome>>

NextRacp ==
    \/ GmRacpDecode
    \/ BleRacpDecode
    \/ GmRacpDeliver

SpecRacp == InitRacp /\ [][NextRacp]_vars

\* ------------------------------------------------------------------------
\* A decoder called twice on one buffer
\* ------------------------------------------------------------------------
\* either decoder takes any bytearray
PureBuffers == GmPayloads \cup RacpPayloads \cup {<<>>}

\* a connected listener with its notifications enabled, in a state a run can
\* have left it in
InitPure ==
    /\ script \in {"gm", "ble"}
    /\ pc = "pure"
    /\ buf \in PureBuffers
    /\ returned = None
    /\ subscribe_uuids = <<>>
    /\ request_all_records = FALSE
    /\ connected = TRUE
    /\ subscribed = {GLUCOSE_MEASUREMENT_UUID, GLUCOSE_CONTEXT_UUID, RACP_UUID}
    /\ measurements_received \in
         (IF script = "gm" THEN {<<>>, <<decode_glucose_measurement(GM_B)>>}
          ELSE {<<>>})
    /\ racp_response_received \in (IF script = "gm" THEN BOOLEAN ELSE {FALSE})
    /\ total_records \in (IF script = "gm" THEN {0, 3} ELSE {0})
    /\ elapsed = 0
    /\ keep = 0
    /\ subIdx = 1
    /\ writes = <<>>
    /\ gmLog = <<>>
    /\ racpSeen = {}
    /\ nNotifs = 0
    /\ handler_raised = FALSE
    /\ outcome = NoOutcome
    /\ invocation = 1

\* lines 108-197: decode_glucose_measurement(buf), first call
GmPureRecord ==
    /\ script = "gm" /\ pc = "pure"
    /\ returned' = Some(decode_glucose_measurement(buf))
    /\ pc' = "rec_once"
    /\ UNCHANGED <<connected, subscribed, sessionVars, elapsed, keep, script,
                   subscribe_uuids, request_all_records, invocation, buf,
                   subIdx, writes, logVars, outcome>>

\* lines 199-245: decode_racp_response(buf), first call
GmPureRacp ==
    /\ script = "gm" /\ pc = "pure"
    /\ returned' = Some(decode_racp_response(buf))
    /\ pc' = "racp_once"
    /\ UNCHANGED <<connected, subscribed, sessionVars, elapsed, keep, script,
                   subscribe_uuids, request_all_records, invocation, buf,
                   subIdx, writes, logVars, outcome>>

\* lines 247-319: a notification is handled between the two calls
GmPureNotify ==
    /\ script = "gm" /\ pc \in {"rec_once", "racp_once"}
    /\ nNotifs < MaxNotifs
    /\ \E n \in Notifications :
         /\ n[1] \in subscribed
         /\ LET r == notification_handler(n[1], n[2], measurements_received,
                                          racp_response_received, total_records)
            IN /\ measurements_received' = r.ms
               /\ racp_response_received' = r.rr
               /\ total_records' = r.tr
               /\ handler_raised' = (handler_raised \/ r.raised)
    /\ nNotifs' = nNotifs + 1
    /\ UNCHANGED <<pc, connected, subscribed, elapsed, keep, configVars,
                   subIdx, writes, gmLog, racpSeen, outcome>>

\* variant: the sequence number is the record's position in the list held
GmPureRecordAgain_numbered ==
    /\ script = "gm" /\ pc = "rec_once"
    /\ returned' = Append(returned,
                     LET m == decode_glucose_measurement(buf) IN
                     IF m.error THEN m
                     ELSE [m EXCEPT !.sequence_number =
                                       Len(measurements_received) + 1])
    /\ pc' = "rec_twice"
    /\ UNCHANGED <<connected, subscribed, sessionVars, elapsed, keep, script,
                   subscribe_uuids, request_all_records, invocation, buf,
                   subIdx, writes, logVars, outcome>>

\* lines 108-197: decode_glucose_measurement(buf), second call
GmPureRecordAgain ==
    /\ script = "gm" /\ pc = "rec_once"
    /\ returned' = Append(returned, decode_glucose_measurement(buf))
    /\ pc' = "rec_twice"
    /\ UNCHANGED <<connected, subscribed, sessionVars, elapsed, keep, script,
                   subscribe_uuids, request_all_records, invocation, buf,
                   subIdx, writes, logVars, outcome>>

\* lines 199-245: decode_racp_response(buf), second call
GmPureRacpAgain ==
    /\ script = "gm" /\ pc = "racp_once"
    /\ returned' = Append(returned, decode_racp_response(buf))
    /\ pc' = "racp_twice"
    /\ UNCHANGED <<connected, subscribed, sessionVars, elapsed, keep, script,
                   subscribe_uuids, request_all_records, invocation, buf,
                   subIdx, writes, logVars, outcome>>

\* ble_listener.py lines 184-254: decode_glucose_measurement(buf), first call
BlePureRecord ==
    /\ script = "ble" /\ pc = "pure"
    /\ returned' = Some(ble_decode_glucose_measurement(buf))
    /\ pc' = "rec_once"
    /\ UNCHANGED <<connected, subscribed, sessionVars, elapsed, keep, script,
                   subscribe_uuids, request_all_records, invocation, buf,
                   subIdx, writes, logVars, outcome>>

\* ble_listener.py lines 256-305: decode_racp_response(buf), first call
BlePureRacp ==
    /\ script = "ble" /\ pc = "pure"
    /\ returned' = Some(ble_decode_racp_response(buf))
    /\ pc' = "racp_once"
    /\ UNCHANGED <<connected, subscribed, sessionVars, elapsed, keep, script,
                   subscribe_uuids, request_all_records, invocation, buf,
                   subIdx, writes, logVars, outcome>>

\* ble_listener.py lines 307-354: a notification is printed between the two
\* calls
BlePureNotify ==
    /\ script = "ble" /\ pc \in {"rec_once", "racp_once"}
    /\ nNotifs < MaxNotifs
    /\ \E n \in Notifications : n[1] \in subscribed
    /\ nNotifs' = nNotifs + 1
    /\ UNCHANGED <<pc, connected, subscribed, sessionVars, elapsed, keep,
                   configVars, subIdx, writes, gmLog, racpSeen,
                   handler_raised, outcome>>

\* ble_listener.py lines 184-254: decode_glucose_measurement(buf), second call
BlePureRecordAgain ==
    /\ script = "ble" /\ pc = "rec_once"
    /\ returned' = Append(returned, ble_decode_glucose_measurement(buf))
    /\ pc' = "rec_twice"
    /\ UNCHANGED <<connected, subscribed, sessionVars, elapsed, keep, script,
                   subscribe_uuids, request_all_records, invocation, buf,
                   subIdx, writes, logVars, outcome>>

\* ble_listener.py lines 256-305: decode_racp_response(buf), second call
BlePureRacpAgain ==
    /\ script = "ble" /\ pc = "racp_once"
    /\ returned' = Append(returned, ble_decode_racp_response(buf))
    /\ pc' = "racp_twice"
    /\ UNCHANGED <<connected, subscribed, sessionVars, elapsed, keep, script,
                   subscribe_uuids, request_all_records, invocation, buf,
                   subIdx, writes, logVars, outcome>>

NextPure ==
    \/ GmPureRecord
    \/ GmPureRacp
    \/ GmPureNotify
    \/ GmPureRecordAgain
    \/ GmPureRacpAgain
    \/ BlePureRecord
    \/ BlePureRacp
    \/ BlePureNotify
    \/ BlePureRecordAgain
    \/ BlePureRacpAgain

SpecPure == InitPure /\ [][NextPure]_vars

\* ------------------------------------------------------------------------
\* Properties
\* ------------------------------------------------------------------------
\* the measurements a correct accumulation of the delivered payloads holds:
\* the decodable ones, in delivery order
RECURSIVE DecodedOf(_)
DecodedOf(log) ==
    IF log = <<>> THEN <<>>
    ELSE LET d == decode_glucose_measurement(Head(log)) IN
         IF d.error THEN DecodedOf(Tail(log))
         ELSE <<d>> \o DecodedOf(Tail(log))

\* the state right after the wait loop was left and the summary printed
AtSummary == script = "gm" /\ pc = "keepalive" /\ keep = 0

CompletionReports == {RACP_SUCCESS, RACP_NO_RECORDS, RACP_NOT_SUPPORTED}

WritesDone(n) ==
    /\ Len(writes) = n
    /\ \A i \in 1..n : writes[i].status = "acked"

\* the retrieval of claim C1: both commands acknowledged, a CountReport, k >= 1
\* well-formed measurements and a Success completion delivered before the
\* loop was left, and nothing else on the RACP characteristic
HappyRun ==
    /\ AtSummary
    /\ WritesDone(2)
    /\ racpSeen = {RACP_COUNT3, RACP_SUCCESS}
    /\ Len(gmLog) >= 1
    /\ \A i \in 1..Len(gmLog) : gmLog[i] \in {GM_A, GM_B}

C3_TimeoutKeepsPartial ==
    (/\ AtSummary
     /\ connected
     /\ racpSeen \cap CompletionReports = {})
    => /\ outcome.state = "TimedOut"
       /\ outcome.measurements = DecodedOf(gmLog)

C3_Witness ==
    /\ AtSummary
    /\ outcome.state = "TimedOut"
    /\ racpSeen \cap CompletionReports = {}
    /\ Len(outcome.measurements) = 2
    /\ elapsed = timeout

AbortCommand == Command(RACP_OPCODE_ABORT_OPERATION, RACP_OPERATOR_NULL)

AbortWrites == {i \in 1..Len(writes) : writes[i].cmd = AbortCommand}

C5_ErrorCompletionFails ==
    [][(/\ script = "gm"
        /\ State \in {"AwaitingCount", "AwaitingRecords"}
        /\ RACP_NOT_SUPPORTED \notin racpSeen
        /\ RACP_NOT_SUPPORTED \in racpSeen')
       => outcome'.state = "Failed"]_vars

\* a NoRecordsFound completion (and no Success) ended the wait after at
\* least one pass of the loop: it was delivered during a sleep of the loop,
\* in AwaitingRecords
NoRecordsInRecords ==
    /\ AtSummary
    /\ RACP_NO_RECORDS \in racpSeen
    /\ RACP_SUCCESS \notin racpSeen
    /\ elapsed >= 1

C7_WriteFailureFails ==
    script = "gm" =>
        \A i \in 1..Len(writes) :
            writes[i].status = "failed" =>
                /\ i = Len(writes)
                /\ outcome.state = "Failed"

\* C8: a disconnect seen by the wait loop ends the session Failed and is
\* never reported as a successful retrieval.
C8_DisconnectFails ==
    (script = "gm" /\ outcome.cause = "disconnected") =>
        /\ outcome.state = "Failed"
        /\ outcome.report # "success"

C10_OneWriteInFlight ==
    /\ Cardinality(Outstanding) <= 1
    /\ \A i \in 1..Len(writes) : i < Len(writes) => writes[i].status # "pending"

C10_Witness ==
    /\ Len(writes) = 2
    /\ writes[1].status \in {"acked", "failed"}
    /\ writes[2].status = "pending"

WritesOf(cmd) == {i \in 1..Len(writes) : writes[i].cmd = cmd}

\* C11: within one retrieval no RACP command is re-sent: 04 01 is written
\* at most once and 01 01 at most once, whatever responses, decode errors,
\* write failures or timeouts occur.
C11_NoResend ==
    /\ Cardinality(WritesOf(Command(4, 1))) <= 1
    /\ Cardinality(WritesOf(Command(1, 1))) <= 1
    /\ Len(writes) <= 2

\* a run in which the count write failed, a malformed and an error response
\* arrived and the wait timed out
C11_Witness ==
    /\ AtSummary
    /\ outcome.state = "TimedOut"
    /\ Len(writes) = 2
    /\ writes[1].status = "failed"
    /\ RACP_NOT_SUPPORTED \in racpSeen
    /\ RACP_TRUNCATED \in racpSeen

Waiting == State \in {"AwaitingCount", "AwaitingRecords"}

\* C12: every retrieval reaches a terminal state no later than one deadline
\* that covers the count phase and the record phase; notifications never
\* reset or extend it.  A retrieval that has written its requests and is
\* still waiting has therefore waited no longer than the deadline.
C12_DeadlineEndsWait ==
    Waiting /\ WritesDone(2) => elapsed <= timeout

\* C13: measurements is append-only and in arrival order: a Measurement
\* notification that decodes adds exactly its decoded record at the end, no
\* other step touches the list, and a record whose sequence number is
\* already held is added like any other.
C13_AppendOnly ==
    [][script = "gm" =>
         IF gmLog' # gmLog
            /\ ~decode_glucose_measurement(gmLog'[Len(gmLog')]).error
         THEN measurements_received' =
                Append(measurements_received,
                       decode_glucose_measurement(gmLog'[Len(gmLog')]))
         ELSE measurements_received' = measurements_received]_vars

\* the same record delivered twice, a different one in between
C13_Witness ==
    /\ script = "gm"
    /\ gmLog = <<GM_A, GM_B, GM_A>>
    /\ Len(measurements_received) = 3
    /\ measurements_received = DecodedOf(gmLog)
    /\ measurements_received[1].sequence_number
         = measurements_received[3].sequence_number

Malformed(n) ==
    \/ n[1] = GLUCOSE_MEASUREMENT_UUID /\ decode_glucose_measurement(n[2]).error
    \/ n[1] = RACP_UUID /\ decode_racp_response(n[2]).error

\* C14: a Measurement or RACP buffer that fails to decode is a decode
\* failure for that notification only: the handler returns normally and
\* leaves measurements, the completion flag and the record count as they
\* were, wherever in the session it arrives.
C14_MalformedIgnored ==
    /\ ~handler_raised
    /\ script = "gm" /\ pc \in GmAwaits /\ connected =>
         \A n \in Notifications :
            Malformed(n) /\ n[1] \in subscribed =>
               notification_handler(n[1], n[2], measurements_received,
                                    racp_response_received, total_records)
                 = [ms |-> measurements_received,
                    rr |-> racp_response_received,
                    tr |-> total_records,
                    raised |-> FALSE]

\* C15: a failed subscription to the Glucose Measurement or to the RACP
\* characteristic is fatal: an RACP command is written only with both
\* subscribed (a failed Context subscription does not matter).
C15_RequiredSubscriptions ==
    Len(writes) >= 1 /\ pc # "done" =>
        {GLUCOSE_MEASUREMENT_UUID, RACP_UUID} \subseteq subscribed

\* C16: the retrieval removes its notification handlers after the session
\* has reached a terminal state and before it returns, on every terminal
\* path: at the return nothing is subscribed and the outcome is terminal,
\* and until the return the RACP handler, once installed, stays installed.
C16_UnsubscribedAtReturn ==
    script = "gm" =>
        /\ pc = "done" => subscribed = {} /\ ~connected /\ outcome.state \in Terminal
        /\ pc \notin {"sub_gm", "sub_ctx", "sub_racp", "done"} =>
              RACP_UUID \in subscribed

\* a return after the timeout, with notifications received on the way
C16_Witness ==
    /\ script = "gm" /\ pc = "done"
    /\ outcome.state = "TimedOut"
    /\ keep = KeepAliveSecs
    /\ gmLog # <<>>
    /\ subscribed = {}

\* characteristics other than Glucose Measurement and RACP: the Context
\* characteristic and one the script has no branch for (Battery Level)
OtherUuids == {GLUCOSE_CONTEXT_UUID, "2a19"}

OnlyOthersDelivered == nNotifs > 0 /\ gmLog = <<>> /\ racpSeen = {}

\* C18: a notification for a characteristic other than Glucose Measurement
\* and RACP passes through without error and leaves measurements, the
\* completion flag and the record count unchanged: the handler maps every
\* such notification to the fields it was given, and a run that has received
\* nothing else still has the fields of a new listener.
C18_OtherCharacteristicsIgnored ==
    /\ \A u \in OtherUuids :
         \A d \in GmPayloads \cup RacpPayloads \cup {CTX_A} :
            notification_handler(u, d, measurements_received,
                                 racp_response_received, total_records)
              = [ms |-> measurements_received,
                 rr |-> racp_response_received,
                 tr |-> total_records,
                 raised |-> FALSE]
    /\ OnlyOthersDelivered =>
         /\ measurements_received = <<>>
         /\ ~racp_response_received
         /\ total_records = 0
         /\ ~handler_raised

\* Context notifications delivered while the script waits for records
C18_Witness ==
    /\ script = "gm" /\ pc = "sleep"
    /\ nNotifs = 2
    /\ OnlyOthersDelivered
    /\ measurements_received = <<>>

\* C17: each retrieval invocation starts from a fresh session: at its start
\* measurements is empty, no record count and no completion is held, and a
\* completion reported by the invocation was received during it.
C17_FreshSession ==
    /\ pc = "sub_gm" =>
         /\ measurements_received = <<>>
         /\ ~racp_response_received
         /\ total_records = 0
    /\ AtSummary /\ outcome.state \in {"Completed", "NoRecords"} =>
         racpSeen \cap {RACP_SUCCESS, RACP_NO_RECORDS} # {}

\* bytes a record needs for the fields its flags byte declares
Needed(flags) ==
    10 + (IF Bit(flags, 0) THEN 2 ELSE 0)
       + (IF Bit(flags, 1) THEN 3 ELSE 0)
       + (IF Bit(flags, 3) THEN 2 ELSE 0)

Present(field) == field # None

\* C19: record decode fails with TooShort whenever a field that the flags
\* byte declares present cannot be read in full; a buffer of length 11 with
\* concentrationPresent set fails.
C19_TooShortFails ==
    pc = "decoded" /\ (Len(buf) < 10 \/ Len(buf) < Needed(buf[1])) =>
        returned[1].error

\* C20: in a decoded record the presence of each optional field follows the
\* flags byte alone (time offset: bit 0; concentration, sample type and
\* location: bit 1; status: bit 3), here for buffers long enough for every
\* field the flags declare.
C20_PresenceByFlags ==
    pc = "decoded" /\ Len(buf) >= 10 /\ Len(buf) >= Needed(buf[1]) =>
        LET m == returned[1] IN
        /\ ~m.error
        /\ Present(m.time_offset_minutes) <=> Bit(buf[1], 0)
        /\ Present(m.glucose_value) <=> Bit(buf[1], 1)
        /\ Present(m.sample_type) <=> Bit(buf[1], 1)
        /\ Present(m.sample_location) <=> Bit(buf[1], 1)
        /\ Present(m.status) <=> Bit(buf[1], 3)

\* C21: record decode of a buffer shorter than 10 bytes fails with "too
\* short" and produces no measurement, in either decoder, and the handler
\* appends nothing for it.
C21_ShortBufferRejected ==
    Len(buf) < 10 =>
        /\ pc \in {"decoded", "handled"} => returned[1].error
        /\ pc = "handled" => measurements_received = <<>> /\ ~handler_raised

\* a 9-byte record went through the decoder and the handler
C21_Witness ==
    /\ script = "gm" /\ pc = "handled"
    /\ Len(buf) = 9
    /\ returned[1].error
    /\ measurements_received = <<>>

\* the decoder of the script that runs
Decoder(data) ==
    IF script = "gm" THEN decode_glucose_measurement(data)
    ELSE ble_decode_glucose_measurement(data)

\* the fields of a decoded record, without the copy of the buffer
Fields(m) == IF script = "gm" THEN [m EXCEPT !.raw_hex = <<>>] ELSE m

\* the buffer cut after the last field its flags declare
Trimmed(data) == SubSeq(data, 1, Needed(data[1]))

\* C22: bytes that follow all fields declared by the flags are ignored: a
\* buffer that holds every declared field decodes without error and to the
\* same fields as the buffer cut after its last declared field.
C22_TrailingBytesIgnored ==
    pc = "decoded" /\ Len(buf) >= 10 /\ Len(buf) >= Needed(buf[1]) =>
        /\ ~returned[1].error
        /\ Fields(returned[1]) = Fields(Decoder(Trimmed(buf)))

\* ------------------------------------------------------------------------
\* The record layout and SFLOAT as the specification states them
\* ------------------------------------------------------------------------
\* a field of width bits read as two's complement
TwosComplement(field, width) ==
    IF field >= 2 ^ (width - 1) THEN field - 2 ^ width ELSE field

\* the five reserved raw values and the names gm_listener.py gives them
SentinelName(raw) ==
    CASE raw = 2047 -> "NaN"
      [] raw = 2048 -> "NRes"
      [] raw = 2046 -> "+INFINITY"
      [] raw = 2050 -> "-INFINITY"
      [] raw = 2049 -> "Reserved"
      [] OTHER -> "none"

IsSentinel(raw) == SentinelName(raw) # "none"

\* SFLOAT decode of a 16-bit raw value: a sentinel or mantissa * 10^exponent
SfloatValue(raw) ==
    IF IsSentinel(raw) THEN <<SentinelName(raw)>>
    ELSE <<"num", Canon(TwosComplement(raw % 4096, 12),
                        TwosComplement((raw \div 4096) % 16, 4))>>

\* the concentration a decoder returned: BLEListener formats a bare number
Concentration(m) ==
    IF script = "gm" THEN m.glucose_value[1] ELSE <<"num", m.glucose_value[1]>>

\* where the concentration of a record starts (1-based)
Cursor(data) == IF Bit(data[1], 0) THEN 13 ELSE 11

\* a decoded record whose flags declare a concentration and whose buffer
\* holds every declared field
DecodedWithConcentration ==
    /\ pc = "decoded"
    /\ Len(buf) >= 10 /\ Len(buf) >= Needed(buf[1])
    /\ Bit(buf[1], 1)

\* C23: for a buffer whose declared fields are all present, the sequence
\* number is bytes 1-2 little-endian, the year bytes 3-4 little-endian,
\* month..second bytes 5..9, the unit mmol/L iff bit 2, the concentration
\* the SFLOAT at the cursor, sample type and location the high and low
\* nibble of the next byte; 06 01 00 E8 07 06 0F 08 1E 00 64 00 10 gives
\* sequence 1, 2024-06-15 08:30:00, 100 mmol/L, type 1, location 0, no time
\* offset, no status.
C23_RecordLayout ==
    /\ DecodedWithConcentration =>
         LET m == returned[1]
             c == Cursor(buf)
         IN /\ ~m.error
            /\ m.sequence_number = buf[2] + 256 * buf[3]
            /\ m.timestamp = <<buf[4] + 256 * buf[5], buf[6], buf[7], buf[8],
                               buf[9], buf[10]>>
            /\ m.units = (IF Bit(buf[1], 2) THEN "mmol/L" ELSE "mg/dL")
            /\ Concentration(m) = SfloatValue(buf[c] + 256 * buf[c + 1])
            /\ m.sample_type = Some(buf[c + 2] \div 16)
            /\ m.sample_location = Some(buf[c + 2] % 16)
    /\ pc = "decoded" /\ buf = GM_A =>
         LET m == returned[1]
         IN /\ m.sequence_number = 1
            /\ m.timestamp = <<2024, 6, 15, 8, 30, 0>>
            /\ Concentration(m) = <<"num", <<1, 2>>>>
            /\ m.units = "mmol/L"
            /\ m.sample_type = Some(1)
            /\ m.sample_location = Some(0)
            /\ m.time_offset_minutes = None
            /\ m.status = None

\* C24: the five reserved raw values decode to their sentinels, never to a
\* number, in every decoder of the program.
C24_SentinelsFirst ==
    DecodedWithConcentration =>
        LET raw == buf[Cursor(buf)] + 256 * buf[Cursor(buf) + 1]
        IN IsSentinel(raw) =>
              Concentration(returned[1]) = <<SentinelName(raw)>>

\* C25: every raw value that is not a reserved sentinel decodes to
\* mantissa * 10^exponent with both fields read as two's complement, 0x0064
\* decodes to 100, and every 16-bit value decodes without error.
C25_SfloatNumber ==
    DecodedWithConcentration =>
        LET raw == buf[Cursor(buf)] + 256 * buf[Cursor(buf) + 1]
            m == returned[1]
        IN /\ ~m.error
           /\ Present(m.glucose_value)
           /\ ~IsSentinel(raw) => Concentration(m) = SfloatValue(raw)
           /\ raw = 100 => Concentration(m) = <<"num", <<1, 2>>>>

\* 0xFF9C: exponent field 15 (-1), mantissa field 0xF9C (-100): -10
C25_Witness ==
    /\ pc = "decoded"
    /\ buf = SfloatBuffer(65436)
    /\ Concentration(returned[1]) = <<"num", <<-1, 1>>>>

\* ------------------------------------------------------------------------
\* RACP responses as the specification states them
\* ------------------------------------------------------------------------
RacpDecoded == pc \in {"racp_decoded", "racp_handled"}

\* C27: a buffer with opcode 5 and at least 4 bytes decodes to a count
\* report whose count is bytes 2-3 little-endian unsigned (05 00 03 00
\* gives 3), and the handler records that count.
C27_CountReport ==
    /\ RacpDecoded /\ Len(buf) >= 4 /\ buf[1] = 5 =>
         /\ ~returned[1].error
         /\ returned[1].num_records = Some(buf[3] + 256 * buf[4])
         /\ pc = "racp_handled" =>
               /\ total_records = buf[3] + 256 * buf[4]
               /\ ~handler_raised
    /\ RacpDecoded /\ buf = RACP_COUNT3 => returned[1].num_records = Some(3)

\* 05 00 04 01 decoded and delivered: the count 260
C27_Witness ==
    /\ script = "gm" /\ pc = "racp_handled"
    /\ buf = <<5, 0, 4, 1>>
    /\ returned[1].num_records = Some(260)
    /\ total_records = 260

\* the result codes of the specification
ResultCode(byte) ==
    CASE byte = 1 -> <<"Success">>
      [] byte = 2 -> <<"OpCodeNotSupported">>
      [] byte = 3 -> <<"InvalidOperator">>
      [] byte = 4 -> <<"OperatorNotSupported">>
      [] byte = 5 -> <<"InvalidOperand">>
      [] byte = 6 -> <<"NoRecordsFound">>
      [] byte = 7 -> <<"AbortUnsuccessful">>
      [] byte = 8 -> <<"ProcedureNotCompleted">>
      [] byte = 9 -> <<"OperandNotSupported">>
      [] OTHER -> <<"Unknown", byte>>

\* the result code a text of either script stands for
ResultNamed(text) ==
    CASE text \in {"Success"} -> "Success"
      [] text \in {"Op Code Not Supported", "Op code not supported"} -> "OpCodeNotSupported"
      [] text \in {"Invalid Operator", "Invalid operator"} -> "InvalidOperator"
      [] text \in {"Operator Not Supported", "Operator not supported"} -> "OperatorNotSupported"
      [] text \in {"Invalid Operand", "Invalid operand"} -> "InvalidOperand"
      [] text \in {"No Records Found", "No records found"} -> "NoRecordsFound"
      [] text \in {"Abort Unsuccessful", "Abort unsuccessful"} -> "AbortUnsuccessful"
      [] text \in {"Procedure Not Completed", "Procedure not completed"} -> "ProcedureNotCompleted"
      [] text \in {"Operand Not Supported", "Operand not supported"} -> "OperandNotSupported"
      [] OTHER -> "Unknown"

\* the result a decoder returned: the name, or Unknown with the byte
\* (response_code of the dictionary, the number in BLEListener's text)
ResultOf(r) ==
    IF script = "gm"
    THEN IF r.response_text[1] = "Unknown"
         THEN <<"Unknown", r.response_code[1]>>
         ELSE <<ResultNamed(r.response_text[1])>>
    ELSE IF r.response[1][1] = "Unknown"
         THEN r.response[1]
         ELSE <<ResultNamed(r.response[1][1])>>

\* the requested opcode a decoder returned (BLEListener names it)
RequestOf(r) ==
    IF script = "gm" THEN r.request_opcode[1]
    ELSE LET t == r.request_op_code[1] IN
         CASE t[1] = "Report stored records" -> 1
           [] t[1] = "Delete stored records" -> 2
           [] t[1] = "Abort operation" -> 3
           [] t[1] = "Report number of stored records" -> 4
           [] t[1] = "Number of stored records response" -> 5
           [] t[1] = "Response code" -> 6
           [] OTHER -> t[2]

\* C28: a buffer with opcode 6 and at least 4 bytes decodes to a completion
\* report with requestedOpcode = byte 2 and resultCode = byte 3 by the table
\* 1 Success .. 9 OperandNotSupported, any other byte Unknown carrying the
\* byte; 06 00 01 01 is Success for opcode 1, 06 00 04 06 NoRecordsFound for
\* opcode 4.
C28_CompletionReport ==
    /\ RacpDecoded /\ Len(buf) >= 4 /\ buf[1] = 6 =>
         /\ ~returned[1].error
         /\ RequestOf(returned[1]) = buf[3]
         /\ ResultOf(returned[1]) = ResultCode(buf[4])
    /\ RacpDecoded /\ buf = <<6, 0, 1, 1>> =>
         RequestOf(returned[1]) = 1 /\ ResultOf(returned[1]) = <<"Success">>
    /\ RacpDecoded /\ buf = <<6, 0, 4, 6>> =>
         RequestOf(returned[1]) = 4 /\ ResultOf(returned[1]) = <<"NoRecordsFound">>

\* a result byte outside the table, decoded by BLEListener
C28_Witness ==
    /\ script = "ble" /\ pc = "racp_decoded"
    /\ buf = <<6, 0, 1, 255>>
    /\ ResultOf(returned[1]) = <<"Unknown", 255>>

\* C29: a buffer of length 2 or 3 whose opcode is 5 or 6 fails with "too
\* short"; it is not surfaced as a count, a completion or an unrecognized
\* response.
C29_ShortResponseFails ==
    RacpDecoded /\ Len(buf) \in {2, 3} /\ buf[1] \in {5, 6} =>
        returned[1].error

Unrecognized(data) == Len(data) >= 2 /\ data[1] \notin {5, 6}

\* C30: a buffer of at least 2 bytes whose opcode is neither 5 nor 6 decodes
\* to an unrecognized response carrying its opcode and operator, never to a
\* failure, and receiving it leaves the completion flag, the count and the
\* measurements as they were.
C30_UnrecognizedSurfaced ==
    [][/\ pc' \in {"racp_decoded", "racp_handled"} /\ Unrecognized(buf) =>
            LET r == returned'[1] IN
            /\ ~r.error
            /\ r.num_records = None
            /\ r.operator = Some(buf[2])
            /\ IF script = "gm"
               THEN r.opcode = Some(buf[1]) /\ r.response_text = None
               ELSE /\ r.response = None
                    /\ buf[1] \notin 1..6 => r.op_code = Some(<<"Unknown", buf[1]>>)
       /\ pc = "racp_decoded" /\ pc' = "racp_handled" /\ Unrecognized(buf) =>
            /\ UNCHANGED sessionVars
            /\ ~handler_raised']_vars

\* AbortOperation echoed to a listener that holds a count and no completion
C30_Witness ==
    /\ script = "gm" /\ pc = "racp_handled"
    /\ buf = <<3, 0>>
    /\ returned[1].opcode = Some(3)
    /\ total_records = 3
    /\ ~racp_response_received

\* what a decoder returned holds no part of a response
NoResponse(r) ==
    /\ r.operator = None
    /\ r.num_records = None
    /\ IF script = "gm"
       THEN r.opcode = None /\ r.request_opcode = None
            /\ r.response_code = None /\ r.response_text = None
       ELSE r.op_code = None /\ r.request_op_code = None /\ r.response = None

\* C31: RACP decode of a buffer shorter than 2 bytes fails with "too short"
\* and yields no response, in either decoder.
C31_ShortRacpRejected ==
    RacpDecoded /\ Len(buf) < 2 =>
        /\ returned[1].error
        /\ NoResponse(returned[1])

\* a one-byte buffer holding the completion opcode went through the decoder
C31_Witness ==
    /\ script = "gm" /\ pc = "racp_decoded"
    /\ buf = <<6>>
    /\ returned[1].error
    /\ returned[1].opcode = None

\* a step that is a call of a decoder
DecoderCall ==
    \/ pc = "pure" /\ pc' \in {"rec_once", "racp_once"}
    \/ pc \in {"rec_once", "racp_once"} /\ pc' \in {"rec_twice", "racp_twice"}

ReportAllWritten ==
    \E i \in 1..Len(writes) :
        writes[i].cmd = Command(RACP_OPCODE_REPORT_STORED_RECORDS,
                                RACP_OPERATOR_ALL_RECORDS)

\* C33: a completion report marks the retrieval finished only if it arrives
\* after the ReportStoredRecords command has been written: the flag that
\* ends the wait for records is never held before that command is written,
\* so a completion that arrives earlier cannot end the wait at once.
C33_CompletionOnlyWhileAwaitingRecords ==
    script = "gm" /\ racp_response_received => ReportAllWritten

\* C34: a measurement is appended to measurements only while the session
\* awaits records: before the ReportStoredRecords command has been written
\* (session Idle or AwaitingCount) the list is empty.
C34_AppendOnlyWhileAwaitingRecords ==
    script = "gm" /\ measurements_received # <<>> => ReportAllWritten

\* C35: RACP commands are written only in a run in which the subscription
\* to the RACP characteristic succeeded: while the run has not returned, a
\* written command implies that RACP notifications are enabled.
C35_WritesNeedRacpSubscription ==
    writes # <<>> /\ pc # "done" => RACP_UUID \in subscribed

\* where the status follows all fields the flags declare (0-based offset)
StatusOffset(flags) ==
    10 + (IF Bit(flags, 0) THEN 2 ELSE 0) + (IF Bit(flags, 1) THEN 3 ELSE 0)

\* C36: whenever record decode reports a status, it is the unsigned
\* little-endian 16-bit value of the two bytes that follow all fields the
\* flags declare present (offset 10, plus 2 for bit 0, plus 3 for bit 1);
\* bytes of a declared time offset or concentration are never reported as
\* status.
C36_StatusAfterDeclaredFields ==
    pc = "decoded" /\ ~returned[1].error /\ Present(returned[1].status) =>
        LET o == StatusOffset(buf[1])
        IN /\ Len(buf) >= o + 2
           /\ returned[1].status = Some(buf[o + 1] + 256 * buf[o + 2])

\* what GlucoseMeterListener reports for a record, with the concentration as
\* the bare number BLEListener prints
GmReported(data) ==
    LET m == decode_glucose_measurement(data) IN
    IF m.error THEN [error |-> TRUE]
    ELSE [error |-> FALSE,
          sequence_number |-> m.sequence_number,
          timestamp |-> m.timestamp,
          units |-> m.units,
          time_offset_minutes |-> m.time_offset_minutes,
          glucose_value |-> IF m.glucose_value = None THEN None
                            ELSE IF m.glucose_value[1][1] = "num"
                            THEN Some(m.glucose_value[1][2])
                            ELSE m.glucose_value,
          sample_type |-> m.sample_type,
          sample_location |-> m.sample_location,
          status |-> m.status]

\* what BLEListener reports for a record
BleReported(data) ==
    LET m == ble_decode_glucose_measurement(data) IN
    IF m.error THEN [error |-> TRUE]
    ELSE [error |-> FALSE,
          sequence_number |-> m.sequence_number,
          timestamp |-> m.timestamp,
          units |-> m.units,
          time_offset_minutes |-> m.time_offset_minutes,
          glucose_value |-> m.glucose_value,
          sample_type |-> m.sample_type,
          sample_location |-> m.sample_location,
          status |-> m.status]

\* C37: the two record decoders agree on every buffer: they accept or
\* reject the same buffers and report the same sequence number, timestamp,
\* unit, time offset, concentration, sample type, sample location and
\* status.
C37_DecodersAgree ==
    pc = "decoded" => GmReported(buf) = BleReported(buf)

====
